---- MODULE Spec2Model ----
(***************************************************************************)
(* simple_logs: severity predicates, frontends, backends, sinks and the    *)
(* SimpleLogger dispatch, modelled from the header of the library          *)
(* (src/unnamed/part_001, lines 513-987, the version SyslogBackend.hpp     *)
(* includes as simple_logs/logs.hpp).                                      *)
(***************************************************************************)
EXTENDS Integers, Sequences, FiniteSets, TLC

VARIABLES
    expr,      \* the severity expression last built (operands and operator)
    pred,      \* the SeverityPredicat that expression produced
    input,     \* the severity the predicate was last called with
    out,       \* the outcome of that call: "T", "F", "X" (raised) or "none"
    args,      \* the predicates an && or || expression was built from
    fmt,       \* the boost::format rendering last done: template, arguments, result
    syslog,    \* the SyslogBackend objects, their ident strings and the syslog facility
    filter,    \* filter[f]: BasicFrontend::filter_ of frontend f
    sinks,     \* SimpleLogger::sinks_, in insertion order
    raised,    \* the exception the last set-up call raised to main ("none")
    started,   \* main has finished set-up and started the logging threads
    mutex,     \* mutex[b]: the thread holding TextStreamBackend::mutex_ (0: free)
    stream,    \* stream[b]: what has been written to the stream of backend b
    pc,        \* pc[t]: the position of thread t
    call,      \* call[t]: the logging call thread t is in
    idx,       \* idx[t]: the position of log's loop in sinks_
    ncalls,    \* ncalls[t]: logging calls thread t has issued
    exc,       \* exc[t]: the exception LOG_THROW raised to the caller of t
    proc       \* the process: running, exited (exit) or aborted (std::terminate)

vars == <<expr, pred, input, out, args, fmt, syslog, filter, sinks, raised,
          started, mutex, stream, pc, call, idx, ncalls, exc, proc>>

predVars == <<expr, pred, input, out, args>>
fmtVars == <<fmt>>
sysVars == <<syslog>>
setupVars == <<filter, sinks, raised, started>>
threadVars == <<mutex, stream, pc, call, idx, ncalls, exc, proc>>

----------------------------------------------------------------------------
(* enum class Severity *)
Placeholder == 0
Trace == 1
Debug == 2
Info == 3
Warning == 4
Throw == 5
Error == 6
Failure == 7

Severity == Placeholder..Failure
Levels == Trace..Failure

(* std::not_equal_to, equal_to, less, greater, less_equal, greater_equal   *)
(* on int, as the comparison operators of Severity hand them over.         *)
Ops == {"ne", "eq", "lt", "gt", "le", "ge"}

ApplyOp(op, a, b) ==
    CASE op = "ne" -> a # b
      [] op = "eq" -> a = b
      [] op = "lt" -> a < b
      [] op = "gt" -> a > b
      [] op = "le" -> a <= b
      [] op = "ge" -> a >= b

(* A SeverityPredicat is the std::function it wraps: wf is what operator   *)
(* bool gives (the function is not empty), fn[s] the outcome of calling it *)
(* with s: "T", "F" or "X" when the call raises.                           *)
Outcome(b) == IF b THEN "T" ELSE "F"

(* SeverityPredicat(Severity sev) *)
LevelPredicat(sev) ==
    [wf |-> TRUE, fn |-> [s \in Severity |-> Outcome(sev = s)]]

(* invalidPredicate wrapped in a SeverityPredicat: every call throws *)
InvalidPredicat == [wf |-> TRUE, fn |-> [s \in Severity |-> "X"]]

(* SeverityPredicat{nullptr}: an empty std::function; calling it throws    *)
(* std::bad_function_call                                                  *)
NullPredicat == [wf |-> FALSE, fn |-> [s \in Severity |-> "X"]]

(* bool operator()(Severity input) const *)
Invoke(p, s) == p.fn[s]

(* operator bool() *)
ToBool(p) == p.wf

(* A plausible slip: the right-placeholder branch applies op the wrong way *)
(* round.                                                                  *)
makePredicateSwapped(lhs, rhs, op) ==
    IF lhs = Placeholder
    THEN [wf |-> TRUE, fn |-> [s \in Severity |-> Outcome(ApplyOp(op, s, rhs))]]
    ELSE IF rhs = Placeholder
    THEN [wf |-> TRUE, fn |-> [s \in Severity |-> Outcome(ApplyOp(op, s, lhs))]]
    ELSE IF ApplyOp(op, lhs, rhs) THEN InvalidPredicat ELSE NullPredicat

makePredicate(lhs, rhs, op) ==
    IF lhs = Placeholder
    THEN [wf |-> TRUE, fn |-> [s \in Severity |-> Outcome(ApplyOp(op, s, rhs))]]
    ELSE IF rhs = Placeholder
    THEN [wf |-> TRUE, fn |-> [s \in Severity |-> Outcome(ApplyOp(op, lhs, s))]]
    ELSE IF ApplyOp(op, lhs, rhs) THEN InvalidPredicat ELSE NullPredicat

(* operator&& of two predicates: lhs(input) && rhs(input), short-circuit   *)
And(l, r) ==
    [wf |-> TRUE,
     fn |-> [s \in Severity |->
               IF Invoke(l, s) = "T" THEN Invoke(r, s) ELSE Invoke(l, s)]]

(* operator|| of two predicates: lhs(input) || rhs(input), short-circuit   *)
Or(l, r) ==
    [wf |-> TRUE,
     fn |-> [s \in Severity |->
               IF Invoke(l, s) = "F" THEN Invoke(r, s) ELSE Invoke(l, s)]]

(* operator!(Severity val) *)
Not(val) == makePredicate(Placeholder, val, "ne")

----------------------------------------------------------------------------
(* The predicate algebra as a state machine: build an expression, call it  *)

NoExpr == [kind |-> "none", lhs |-> Placeholder, rhs |-> Placeholder, op |-> "eq"]
NoArgs == <<>>

(* lhs op rhs, for the six comparison operators *)
Compare(lhs, rhs, op) ==
    /\ expr' = [kind |-> "cmp", lhs |-> lhs, rhs |-> rhs, op |-> op]
    /\ pred' = makePredicate(lhs, rhs, op)
    /\ input' = Placeholder
    /\ out' = "none"
    /\ args' = NoArgs
    /\ UNCHANGED <<setupVars, threadVars, fmtVars, sysVars>>

(* the implicit conversion of one level to a predicate *)
FromLevel(sev) ==
    /\ expr' = [kind |-> "level", lhs |-> sev, rhs |-> Placeholder, op |-> "eq"]
    /\ pred' = LevelPredicat(sev)
    /\ input' = Placeholder
    /\ out' = "none"
    /\ args' = NoArgs
    /\ UNCHANGED <<setupVars, threadVars, fmtVars, sysVars>>

(* predicate(input) *)
Evaluate(s) ==
    /\ expr.kind \notin {"none", "notnot"}
    /\ input' = s
    /\ out' = Invoke(pred, s)
    /\ UNCHANGED <<expr, pred, args, setupVars, threadVars, fmtVars, sysVars>>

(* The predicates && and || expressions are built from: >= Warning,      *)
(* Info >= input, the level Error, !Debug, and Info == Info; operator     *)
(* bool is true of each of them.                                           *)
Operands ==
    { makePredicate(Placeholder, Warning, "ge"),
      makePredicate(Info, Placeholder, "ge"),
      LevelPredicat(Error),
      Not(Debug),
      makePredicate(Info, Info, "eq") }

(* (p && q) && r *)
AndOf(p, q, r) ==
    /\ expr' = [kind |-> "and", lhs |-> Placeholder, rhs |-> Placeholder, op |-> "eq"]
    /\ args' = <<p, q, r>>
    /\ pred' = And(And(p, q), r)
    /\ input' = Placeholder
    /\ out' = "none"
    /\ UNCHANGED <<setupVars, threadVars, fmtVars, sysVars>>

(* (p || q) || r *)
OrOf(p, q, r) ==
    /\ expr' = [kind |-> "or", lhs |-> Placeholder, rhs |-> Placeholder, op |-> "eq"]
    /\ args' = <<p, q, r>>
    /\ pred' = Or(Or(p, q), r)
    /\ input' = Placeholder
    /\ out' = "none"
    /\ UNCHANGED <<setupVars, threadVars, fmtVars, sysVars>>

(* !val *)
Negate(val) ==
    /\ expr' = [kind |-> "not", lhs |-> val, rhs |-> Placeholder, op |-> "ne"]
    /\ args' = NoArgs
    /\ pred' = Not(val)
    /\ input' = Placeholder
    /\ out' = "none"
    /\ UNCHANGED <<setupVars, threadVars, fmtVars, sysVars>>

(* ! of a SeverityPredicat: operator! is declared for Severity alone, so  *)
(* the predicate is converted by operator bool and the built-in ! gives a *)
(* bool.                                                                   *)
NotOfPredicat(p) == ~ToBool(p)

(* !(!val): pred is the predicate !val, out the bool the expression is *)
NegateTwice(val) ==
    /\ expr' = [kind |-> "notnot", lhs |-> val, rhs |-> Placeholder, op |-> "ne"]
    /\ args' = NoArgs
    /\ pred' = Not(val)
    /\ input' = Placeholder
    /\ out' = Outcome(NotOfPredicat(Not(val)))
    /\ UNCHANGED <<setupVars, threadVars, fmtVars, sysVars>>

NextPred ==
    \/ \E lhs \in Severity, rhs \in Severity, op \in Ops : Compare(lhs, rhs, op)
    \/ \E sev \in Levels : FromLevel(sev)
    \/ \E p \in Operands, q \in Operands, r \in Operands : AndOf(p, q, r)
    \/ \E p \in Operands, q \in Operands, r \in Operands : OrOf(p, q, r)
    \/ \E val \in Levels : Negate(val)
    \/ \E val \in Levels : NegateTwice(val)
    \/ \E s \in Levels : Evaluate(s)

----------------------------------------------------------------------------
(* Bounds of the model *)
MaxSinks == 2
MaxCalls == 2

NULL == 0

(* The objects main creates: two frontends, two backends, each backend on *)
(* a stream of its own, and two logging threads.                          *)
Frontends == {1, 2}
Backends == {1, 2}
Threads == {1, 2}

(* A plausible slip: the operands the other way round *)
DefaultFilterReversed == makePredicate(Trace, Placeholder, "ge")

(* BasicFrontend(): filter_{Severity::Placeholder >= Severity::Trace} *)
DefaultFilter == makePredicate(Placeholder, Trace, "ge")

(* The predicates the set-up code hands to setFilter: >= Warning, <= Info, *)
(* and two comparisons of concrete levels, one true and one false.         *)
FilterChoices ==
    { makePredicate(Placeholder, Warning, "ge"),
      makePredicate(Placeholder, Info, "le"),
      makePredicate(Info, Info, "eq"),
      makePredicate(Warning, Info, "lt") }

(* struct Sink *)
Sink(f, b) == [frontend |-> f, backend |-> b]

----------------------------------------------------------------------------
(* Set-up, on the main thread, before the logging threads start *)

(* A plausible slip: the backend is not checked *)
addSinkUnchecked(list, sink) ==
    IF sink.frontend = NULL
    THEN [sinks |-> list, raised |-> "invalid logger frontend"]
    ELSE [sinks |-> Append(list, sink), raised |-> "none"]

(* A plausible slip: the frontend is not checked *)
addSinkFrontendUnchecked(list, sink) ==
    IF sink.backend = NULL
    THEN [sinks |-> list, raised |-> "invalid logger backend"]
    ELSE [sinks |-> Append(list, sink), raised |-> "none"]

(* A plausible slip: emplace_front in place of emplace_back *)
addSinkFront(list, sink) ==
    IF sink.frontend = NULL
    THEN [sinks |-> list, raised |-> "invalid logger frontend"]
    ELSE IF sink.backend = NULL
    THEN [sinks |-> list, raised |-> "invalid logger backend"]
    ELSE [sinks |-> <<sink>> \o list, raised |-> "none"]

(* SimpleLogger::addSink: the list and the exception after the call *)
addSink(list, sink) ==
    IF sink.frontend = NULL
    THEN [sinks |-> list, raised |-> "invalid logger frontend"]
    ELSE IF sink.backend = NULL
    THEN [sinks |-> list, raised |-> "invalid logger backend"]
    ELSE [sinks |-> Append(list, sink), raised |-> "none"]

(* BasicLogger::setFilter of the earlier header: no exception, the default *)
(* filter is installed in place of an ill-formed one.                      *)
setFilterDefaulting(cur, p) ==
    IF ToBool(p)
    THEN [filter |-> p, raised |-> "none"]
    ELSE [filter |-> DefaultFilter, raised |-> "none"]

(* A plausible slip: the test of the predicate is inverted *)
setFilterInverted(cur, p) ==
    IF ToBool(p)
    THEN [filter |-> cur, raised |-> "invalid severity filter"]
    ELSE [filter |-> p, raised |-> "none"]

(* BasicFrontend::setFilter: the filter and the exception after the call *)
setFilter(cur, p) ==
    IF ToBool(p) = FALSE
    THEN [filter |-> cur, raised |-> "invalid severity filter"]
    ELSE [filter |-> p, raised |-> "none"]

(* BasicFrontend::getFilter *)
getFilter(f) == filter[f]

(* LOGGER_ADD_SINK(frontend, backend) *)
AddSink(f, b) ==
    /\ ~started
    /\ Len(sinks) < MaxSinks \/ f = NULL \/ b = NULL
    /\ LET r == addSink(sinks, Sink(f, b)) IN
         /\ sinks' = r.sinks
         /\ raised' = r.raised
    /\ UNCHANGED <<filter, started, predVars, threadVars, fmtVars, sysVars>>

(* frontend->setFilter(p) *)
SetFilter(f, p) ==
    /\ ~started
    /\ LET r == setFilter(filter[f], p) IN
         /\ filter' = [filter EXCEPT ![f] = r.filter]
         /\ raised' = r.raised
    /\ UNCHANGED <<sinks, started, predVars, threadVars, fmtVars, sysVars>>

(* main catches what set-up raised and starts the logging threads *)
StartLogging ==
    /\ ~started
    /\ started' = TRUE
    /\ raised' = "none"
    /\ UNCHANGED <<filter, sinks, predVars, threadVars, fmtVars, sysVars>>

----------------------------------------------------------------------------
(* boost::format as getLogFormat, messageHandler and makeRecord use it.   *)
(* A template is a sequence of items: literal text, a placeholder %n%, or *)
(* a % that starts no directive (which boost::format cannot parse).       *)

Lit(v) == [k |-> "lit", n |-> 0, v |-> v]
Arg(n) == [k |-> "arg", n |-> n, v |-> ""]
Stray == [k |-> "bad", n |-> 0, v |-> "%"]

(* boost::io::all_error_bits *)
ErrorBits == {"bad_format_string", "too_few_args", "too_many_args", "out_of_range"}

RECURSIVE MaxArgN(_, _)
MaxArgN(items, i) ==
    IF i > Len(items) THEN 0
    ELSE LET rest == MaxArgN(items, i + 1) IN
           IF items[i].n > rest THEN items[i].n ELSE rest

(* the number of arguments a template expects: its highest placeholder *)
NumArgs(items) == MaxArgN(items, 1)

Thrown(e) == [status |-> "thrown", error |-> e, items |-> <<>>, fed |-> <<>>, exceptions |-> {}]

(* an exception that leaves a noexcept function: std::terminate *)
NoExcept(f) == IF f.status = "thrown" THEN [f EXCEPT !.status = "terminate"] ELSE f

(* boost::format{string}: parses with all error bits set *)
ParseFormat(items) ==
    IF \E i \in 1..Len(items) : items[i].k = "bad"
    THEN Thrown("bad_format_string")
    ELSE [status |-> "ok", error |-> "none", items |-> items, fed |-> <<>>,
          exceptions |-> ErrorBits]

(* format.exceptions(bits) *)
SetExceptions(f, bits) ==
    IF f.status = "ok" THEN [f EXCEPT !.exceptions = bits] ELSE f

(* format % arg *)
Feed(f, a) ==
    IF f.status # "ok" THEN f
    ELSE IF Len(f.fed) < NumArgs(f.items) THEN [f EXCEPT !.fed = Append(@, a)]
    ELSE IF "too_many_args" \in f.exceptions THEN Thrown("too_many_args")
    ELSE f

RECURSIVE FeedAll(_, _)
FeedAll(f, as) == IF as = <<>> THEN f ELSE FeedAll(Feed(f, Head(as)), Tail(as))

RECURSIVE Pieces(_, _, _)
Pieces(items, fed, i) ==
    IF i > Len(items) THEN <<>>
    ELSE (IF items[i].k = "lit" THEN <<items[i]>>
          ELSE IF items[i].n <= Len(fed) THEN <<Lit(fed[items[i].n])>>
          ELSE <<>>) \o Pieces(items, fed, i + 1)

(* format.str(): the text, or too_few_args; a placeholder that was not    *)
(* fed contributes nothing                                                 *)
Str(f) ==
    IF f.status # "ok" THEN [status |-> f.status, error |-> f.error, out |-> <<>>]
    ELSE IF Len(f.fed) < NumArgs(f.items) /\ "too_few_args" \in f.exceptions
    THEN [status |-> "thrown", error |-> "too_few_args", out |-> <<>>]
    ELSE [status |-> "ok", error |-> "none", out |-> Pieces(f.items, f.fed, 1)]

(* getLogFormat, noexcept *)
getLogFormat(items) ==
    NoExcept(SetExceptions(NoExcept(ParseFormat(items)),
                           ErrorBits \ {"too_few_args", "too_many_args"}))

(* doFormat, noexcept *)
doFormat(f, as) == NoExcept(FeedAll(f, as))

(* messageHandler(messageFormat, args...), noexcept *)
formatMessage(items, as) == doFormat(getLogFormat(items), as)

(* StandardFrontend / LightFrontend::makeRecord, noexcept: the record     *)
(* template fed with the fields                                            *)
assembleRecord(items, fields) ==
    NoExcept(Str(FeedAll(SetExceptions(ParseFormat(items),
                                       ErrorBits \ {"too_many_args"}), fields)))

(* the seven fields makeRecord feeds *)
RecordFields == <<"severity", "file", "line", "function", "time", "thread", "message">>

(* STANDARD_LOG_FORMAT and LIGHT_LOG_FORMAT (their placeholders), and two  *)
(* formats a build can define for itself: one that leaves MESSAGE and the  *)
(* later fields out, one that names an eighth item                         *)
StandardFormat == <<Arg(1), Arg(6), Arg(5), Arg(2), Arg(3), Arg(4), Lit("|"), Arg(7)>>
LightFormat == <<Arg(1), Arg(2), Arg(3), Lit("|"), Arg(7)>>
RecordFormats ==
    { StandardFormat, LightFormat,
      <<Arg(1), Arg(2), Arg(3)>>,
      <<Arg(1), Arg(7), Arg(8)>> }

MaxTemplateLen == 3
MaxArgs == 2

(* the templates and argument lists of the logging calls *)
Items == {Lit("a"), Arg(1), Arg(2), Arg(3), Stray}
Templates == UNION {[1..n -> Items] : n \in 0..MaxTemplateLen}
ArgLists == UNION {[1..n -> {"x", "y"}] : n \in 0..MaxArgs}

(* a user message is formatted and rendered *)
UserMessage(items, as) ==
    /\ fmt' = [kind |-> "message", tmpl |-> items, args |-> as,
               res |-> Str(formatMessage(items, as))]
    /\ UNCHANGED <<predVars, setupVars, threadVars, sysVars>>

(* a record is assembled from its template and the seven fields *)
AssembleRecord(items) ==
    /\ fmt' = [kind |-> "record", tmpl |-> items, args |-> RecordFields,
               res |-> assembleRecord(items, RecordFields)]
    /\ UNCHANGED <<predVars, setupVars, threadVars, sysVars>>

NextFormat ==
    \/ \E items \in Templates, as \in ArgLists : UserMessage(items, as)
    \/ \E items \in RecordFormats : AssembleRecord(items)

----------------------------------------------------------------------------
(* SyslogBackend and the syslog facility of the process *)

(* the SyslogBackend objects the program creates and destroys *)
Objs == {1, 2}

(* the identities the callers pass and the records consumed *)
Idents == {"a", "b"}
Records == {"r"}

(* the character buffers of the process: the one of a std::string lives   *)
(* from the string's construction to its destruction, and the allocator   *)
(* may hand a released one out again                                       *)
MaxCells == 3
Cells == 1..MaxCells

(* enum class Priority, and a value outside it that a cast can produce *)
Priorities == {"Err", "Info", "outside"}

(* toSyslotPriority *)
toSyslotPriority(priority) ==
    CASE priority = "Err" -> "LOG_ERR"
      [] priority = "Info" -> "LOG_INFO"
      [] OTHER -> "throw"

NoObject == [state |-> "none", ident_ |-> NULL, priority_ |-> "none",
             handed |-> NULL, text |-> ""]
FreeCell == [live |-> FALSE, text |-> ""]
NoRecord == [by |-> NULL, rec |-> "", tag |-> "", priority |-> "none"]

(* before the first SyslogBackend: no openlog call was made, the facility *)
(* has no ident                                                            *)
NoSyslog ==
    [obj |-> [o \in Objs |-> NoObject],
     heap |-> [c \in Cells |-> FreeCell],
     ident |-> NULL,
     last |-> NoRecord]

(* A plausible slip: openlog(ident.data(), ...), the caller's string *)
handedArgument(own, arg) == arg

(* what the constructor passes to openlog: ident_.c_str() *)
handedIdent(own, arg) == own

(* SyslogBackend(priority): openlog(NULL, ...) *)
Construct(o, priority) ==
    /\ syslog.obj[o].state # "alive"
    /\ IF toSyslotPriority(priority) = "throw"
       THEN syslog' = [syslog EXCEPT !.obj[o] = NoObject]
       ELSE syslog' = [syslog EXCEPT
                         !.obj[o] = [state |-> "alive", ident_ |-> NULL,
                                     priority_ |-> toSyslotPriority(priority),
                                     handed |-> NULL, text |-> ""],
                         !.ident = NULL]
    /\ UNCHANGED <<predVars, setupVars, threadVars, fmtVars>>

(* SyslogBackend(ident, priority): the caller's string is a temporary in  *)
(* the buffer arg, released when the statement ends; ident_ copies it     *)
(* into the buffer own, which the object keeps.                           *)
ConstructIdent(o, id, priority) ==
    /\ syslog.obj[o].state # "alive"
    /\ \E own, arg \in Cells :
         /\ own # arg
         /\ ~syslog.heap[own].live /\ ~syslog.heap[arg].live
         /\ IF toSyslotPriority(priority) = "throw"
            THEN syslog' = [syslog EXCEPT
                              !.obj[o] = NoObject,
                              !.heap[own] = [live |-> FALSE, text |-> id],
                              !.heap[arg] = [live |-> FALSE, text |-> id]]
            ELSE syslog' = [syslog EXCEPT
                              !.obj[o] = [state |-> "alive", ident_ |-> own,
                                          priority_ |-> toSyslotPriority(priority),
                                          handed |-> handedIdent(own, arg),
                                          text |-> id],
                              !.heap[own] = [live |-> TRUE, text |-> id],
                              !.heap[arg] = [live |-> FALSE, text |-> id],
                              !.ident = handedIdent(own, arg)]
    /\ UNCHANGED <<predVars, setupVars, threadVars, fmtVars>>

(* what the facility reads through its ident pointer: the program's name  *)
(* for NULL, the buffer's text while the buffer lives, and anything once  *)
(* the buffer is released                                                  *)
IdentRead ==
    IF syslog.ident = NULL THEN {"program"}
    ELSE IF syslog.heap[syslog.ident].live THEN {syslog.heap[syslog.ident].text}
    ELSE Idents \cup {"garbage"}

(* SyslogBackend::consume: syslog(priority_, "%s", record) *)
Consume(o, rec) ==
    /\ syslog.obj[o].state = "alive"
    /\ \E tag \in IdentRead :
         syslog' = [syslog EXCEPT
                      !.last = [by |-> o, rec |-> rec, tag |-> tag,
                                priority |-> syslog.obj[o].priority_]]
    /\ UNCHANGED <<predVars, setupVars, threadVars, fmtVars>>

(* ~SyslogBackend, implicit: ident_ is destroyed, closelog is not called *)
Destroy(o) ==
    /\ syslog.obj[o].state = "alive"
    /\ syslog' = [syslog EXCEPT
                    !.obj[o].state = "dead",
                    !.heap = [c \in Cells |->
                                IF c = syslog.obj[o].ident_
                                THEN [syslog.heap[c] EXCEPT !.live = FALSE]
                                ELSE syslog.heap[c]]]
    /\ UNCHANGED <<predVars, setupVars, threadVars, fmtVars>>

NextSyslog ==
    \/ \E o \in Objs, priority \in Priorities : Construct(o, priority)
    \/ \E o \in Objs, id \in Idents, priority \in Priorities :
         ConstructIdent(o, id, priority)
    \/ \E o \in Objs, rec \in Records : Consume(o, rec)
    \/ \E o \in Objs : Destroy(o)

----------------------------------------------------------------------------
(* The logging macros and SimpleLogger::log, per thread *)

Macros ==
    {"LOG_TRACE", "LOG_DEBUG", "LOG_INFO", "LOG_WARNING", "LOG_ERROR",
     "LOG_FAILURE", "LOG_THROW"}

(* the severity each macro passes to LOG_FORMAT *)
MacroSeverity(m) ==
    CASE m = "LOG_TRACE" -> Trace
      [] m = "LOG_DEBUG" -> Debug
      [] m = "LOG_INFO" -> Info
      [] m = "LOG_WARNING" -> Warning
      [] m = "LOG_ERROR" -> Error
      [] m = "LOG_FAILURE" -> Failure
      [] m = "LOG_THROW" -> Throw

(* the macros the threads call; LOG_TRACE, LOG_DEBUG and LOG_WARNING      *)
(* differ from LOG_INFO and LOG_ERROR in the severity alone.               *)
CallMacros == {"LOG_INFO", "LOG_ERROR", "LOG_FAILURE", "LOG_THROW"}

(* the ExceptionType arguments of LOG_THROW *)
ExceptionTypes == {"runtime_error", "logic_error"}

(* <cstdlib> *)
EXIT_FAILURE == 1

RECURSIVE SumOver(_, _)
SumOver(f, S) ==
    IF S = {} THEN 0
    ELSE LET x == CHOOSE y \in S : TRUE IN f[x] + SumOver(f, S \ {x})

(* logging calls issued so far, by all threads *)
TotalCalls == SumOver(ncalls, Threads)

(* made: how often this call has asked a frontend for a record *)
NoCall == [macro |-> "none", sev |-> Placeholder, msg |-> <<0, 0>>, etype |-> "none",
           made |-> 0]
NoExc == [etype |-> "none", what |-> <<0, 0>>]
Running == [state |-> "running", by |-> 0, status |-> 0]

(* messageHandler: the rendered user message; each call has its own text, *)
(* named by the thread and the number of the call.                        *)
messageHandler(t, n) == <<t, n>>

(* makeRecord: the record carries the message; its other fields are not   *)
(* modelled.                                                               *)
makeRecord(sev, msg) == msg

(* The macro starts: the message is formatted and log is entered *)
Begin(t, m, e) ==
    /\ started /\ proc.state = "running"
    /\ pc[t] = "idle"
    /\ TotalCalls < MaxCalls
    /\ (m = "LOG_THROW") = (e # "none")
    /\ ncalls' = [ncalls EXCEPT ![t] = @ + 1]
    /\ call' = [call EXCEPT ![t] =
                  [macro |-> m, sev |-> MacroSeverity(m),
                   msg |-> messageHandler(t, ncalls[t] + 1), etype |-> e,
                   made |-> 0]]
    /\ idx' = [idx EXCEPT ![t] = 1]
    /\ pc' = [pc EXCEPT ![t] = "loop"]
    /\ UNCHANGED <<mutex, stream, exc, proc, predVars, setupVars, fmtVars, sysVars>>

(* a macro is called with a template like "100%": boost::format throws   *)
(* bad_format_string in getLogFormat, which is noexcept, and the process  *)
(* is ended by std::terminate before log is entered                       *)
MalformedTemplates == {<<Lit("a"), Stray>>}

BeginMalformed(t, m, items) ==
    /\ started /\ proc.state = "running"
    /\ pc[t] = "idle"
    /\ TotalCalls < MaxCalls
    /\ formatMessage(items, <<>>).status = "terminate"
    /\ ncalls' = [ncalls EXCEPT ![t] = @ + 1]
    /\ call' = [call EXCEPT ![t] =
                  [macro |-> m, sev |-> MacroSeverity(m),
                   msg |-> NoCall.msg, etype |-> "none", made |-> 0]]
    /\ pc' = [pc EXCEPT ![t] = "format"]
    /\ proc' = [state |-> "aborted", by |-> t, status |-> 0]
    /\ UNCHANGED <<idx, mutex, stream, exc, predVars, setupVars, fmtVars, sysVars>>

(* A plausible slip: the filter is not consulted, every sink consumes *)
LoopUnfiltered(t) ==
    /\ proc.state = "running"
    /\ pc[t] = "loop"
    /\ IF idx[t] > Len(sinks)
       THEN pc' = [pc EXCEPT ![t] = "after"]
       ELSE pc' = [pc EXCEPT ![t] = "lock"]
    /\ UNCHANGED <<idx, proc, mutex, stream, call, ncalls, exc, predVars, setupVars, fmtVars, sysVars>>

(* A plausible slip: a sink whose filter rejects is erased from the list *)
LoopErasing(t) ==
    /\ proc.state = "running"
    /\ pc[t] = "loop"
    /\ IF idx[t] > Len(sinks)
       THEN /\ pc' = [pc EXCEPT ![t] = "after"]
            /\ UNCHANGED <<idx, proc, call, sinks>>
       ELSE LET r == Invoke(filter[sinks[idx[t]].frontend], call[t].sev) IN
            CASE r = "T" -> /\ call' = [call EXCEPT ![t].made = @ + 1]
                            /\ pc' = [pc EXCEPT ![t] = "lock"]
                            /\ UNCHANGED <<idx, proc, sinks>>
              [] r = "F" -> /\ sinks' = SubSeq(sinks, 1, idx[t] - 1) \o
                                          SubSeq(sinks, idx[t] + 1, Len(sinks))
                            /\ UNCHANGED <<pc, proc, call, idx>>
              [] r = "X" -> /\ proc' = [state |-> "aborted", by |-> t, status |-> 0]
                            /\ UNCHANGED <<pc, idx, call, sinks>>
    /\ UNCHANGED <<mutex, stream, ncalls, exc, predVars, filter, raised, started,
                   fmtVars, sysVars>>

(* A plausible slip: the record is made before the filter is asked *)
LoopRenderFirst(t) ==
    /\ proc.state = "running"
    /\ pc[t] = "loop"
    /\ IF idx[t] > Len(sinks)
       THEN /\ pc' = [pc EXCEPT ![t] = "after"]
            /\ UNCHANGED <<idx, proc, call>>
       ELSE LET r == Invoke(filter[sinks[idx[t]].frontend], call[t].sev) IN
            /\ call' = [call EXCEPT ![t].made = @ + 1]
            /\ CASE r = "T" -> /\ pc' = [pc EXCEPT ![t] = "lock"]
                               /\ UNCHANGED <<idx, proc>>
                 [] r = "F" -> /\ idx' = [idx EXCEPT ![t] = @ + 1]
                               /\ UNCHANGED <<pc, proc>>
                 [] r = "X" -> /\ proc' = [state |-> "aborted", by |-> t, status |-> 0]
                               /\ UNCHANGED <<pc, idx>>
    /\ UNCHANGED <<mutex, stream, ncalls, exc, predVars, setupVars, fmtVars, sysVars>>

(* for (Sink &sink : sinks_) if (sink.frontend->getFilter()(severity)):   *)
(* the loop ends, or the filter of the next sink is called and, if it     *)
(* accepts, the record is made; log is noexcept, so a filter that raises  *)
(* ends the process in std::terminate.                                    *)
Loop(t) ==
    /\ proc.state = "running"
    /\ pc[t] = "loop"
    /\ IF idx[t] > Len(sinks)
       THEN /\ pc' = [pc EXCEPT ![t] = "after"]
            /\ UNCHANGED <<idx, proc, call>>
       ELSE LET r == Invoke(filter[sinks[idx[t]].frontend], call[t].sev) IN
            CASE r = "T" -> /\ call' = [call EXCEPT ![t].made = @ + 1]
                            /\ pc' = [pc EXCEPT ![t] = "lock"]
                            /\ UNCHANGED <<idx, proc>>
              [] r = "F" -> /\ idx' = [idx EXCEPT ![t] = @ + 1]
                            /\ UNCHANGED <<pc, proc, call>>
              [] r = "X" -> /\ proc' = [state |-> "aborted", by |-> t, status |-> 0]
                            /\ UNCHANGED <<pc, idx, call>>
    /\ UNCHANGED <<mutex, stream, ncalls, exc, predVars, setupVars, fmtVars, sysVars>>

(* TextStreamBackend::consume of the earlier header: no mutex *)
LockMissing(t) ==
    /\ proc.state = "running"
    /\ pc[t] = "lock"
    /\ pc' = [pc EXCEPT ![t] = "write"]
    /\ UNCHANGED <<mutex, stream, call, idx, ncalls, exc, proc, predVars, setupVars, fmtVars, sysVars>>

(* A plausible slip: try_lock in place of lock. A sink whose backend is   *)
(* busy is passed over.                                                    *)
LockTrying(t) ==
    /\ proc.state = "running"
    /\ pc[t] = "lock"
    /\ LET b == sinks[idx[t]].backend IN
         IF mutex[b] = 0
         THEN /\ mutex' = [mutex EXCEPT ![b] = t]
              /\ pc' = [pc EXCEPT ![t] = "write"]
              /\ UNCHANGED idx
         ELSE /\ idx' = [idx EXCEPT ![t] = @ + 1]
              /\ pc' = [pc EXCEPT ![t] = "loop"]
              /\ UNCHANGED mutex
    /\ UNCHANGED <<stream, call, ncalls, exc, proc, predVars, setupVars, fmtVars, sysVars>>

(* TextStreamBackend::consume: std::lock_guard lock{mutex_} *)
Lock(t) ==
    /\ proc.state = "running"
    /\ pc[t] = "lock"
    /\ LET b == sinks[idx[t]].backend IN
         /\ mutex[b] = 0
         /\ mutex' = [mutex EXCEPT ![b] = t]
    /\ pc' = [pc EXCEPT ![t] = "write"]
    /\ UNCHANGED <<stream, call, idx, ncalls, exc, proc, predVars, setupVars, fmtVars, sysVars>>

(* A plausible slip: the guard covers the record alone, not the newline *)
WriteRecordReleasing(t) ==
    /\ proc.state = "running"
    /\ pc[t] = "write"
    /\ LET b == sinks[idx[t]].backend IN
         /\ stream' = [stream EXCEPT ![b] =
                         Append(@, [rec |-> makeRecord(call[t].sev, call[t].msg),
                                    part |-> "text"])]
         /\ mutex' = [mutex EXCEPT ![b] = 0]
    /\ pc' = [pc EXCEPT ![t] = "endl"]
    /\ UNCHANGED <<call, idx, ncalls, exc, proc, predVars, setupVars, fmtVars, sysVars>>

(* A plausible slip: the record is put at the front of the stream *)
WriteRecordAtFront(t) ==
    /\ proc.state = "running"
    /\ pc[t] = "write"
    /\ LET b == sinks[idx[t]].backend IN
         stream' = [stream EXCEPT ![b] =
                      <<[rec |-> makeRecord(call[t].sev, call[t].msg),
                         part |-> "text"]>> \o @]
    /\ pc' = [pc EXCEPT ![t] = "endl"]
    /\ UNCHANGED <<mutex, call, idx, ncalls, exc, proc, predVars, setupVars, fmtVars, sysVars>>

(* stream_ << record *)
WriteRecord(t) ==
    /\ proc.state = "running"
    /\ pc[t] = "write"
    /\ LET b == sinks[idx[t]].backend IN
         stream' = [stream EXCEPT ![b] =
                      Append(@, [rec |-> makeRecord(call[t].sev, call[t].msg),
                                 part |-> "text"])]
    /\ pc' = [pc EXCEPT ![t] = "endl"]
    /\ UNCHANGED <<mutex, call, idx, ncalls, exc, proc, predVars, setupVars, fmtVars, sysVars>>

(* TerminalLogger::log of the earlier header: exit(EXIT_FAILURE) inside   *)
(* log, right after the record of a Failure call is written.              *)
WriteEndlExiting(t) ==
    /\ proc.state = "running"
    /\ pc[t] = "endl"
    /\ LET b == sinks[idx[t]].backend IN
         /\ stream' = [stream EXCEPT ![b] =
                         Append(@, [rec |-> makeRecord(call[t].sev, call[t].msg),
                                    part |-> "endl"])]
         /\ mutex' = [mutex EXCEPT ![b] = 0]
    /\ idx' = [idx EXCEPT ![t] = @ + 1]
    /\ pc' = [pc EXCEPT ![t] = "loop"]
    /\ proc' = IF call[t].sev = Failure
               THEN [state |-> "exited", by |-> t, status |-> EXIT_FAILURE]
               ELSE proc
    /\ UNCHANGED <<call, ncalls, exc, predVars, setupVars, fmtVars, sysVars>>

(* A plausible slip: mutex_.lock() with no unlock, in place of the        *)
(* lock_guard                                                              *)
WriteEndlHolding(t) ==
    /\ proc.state = "running"
    /\ pc[t] = "endl"
    /\ LET b == sinks[idx[t]].backend IN
         stream' = [stream EXCEPT ![b] =
                      Append(@, [rec |-> makeRecord(call[t].sev, call[t].msg),
                                 part |-> "endl"])]
    /\ idx' = [idx EXCEPT ![t] = @ + 1]
    /\ pc' = [pc EXCEPT ![t] = "loop"]
    /\ UNCHANGED <<mutex, call, ncalls, exc, proc, predVars, setupVars, fmtVars, sysVars>>

(* << std::endl; consume returns and the lock_guard releases the mutex *)
WriteEndl(t) ==
    /\ proc.state = "running"
    /\ pc[t] = "endl"
    /\ LET b == sinks[idx[t]].backend IN
         /\ stream' = [stream EXCEPT ![b] =
                         Append(@, [rec |-> makeRecord(call[t].sev, call[t].msg),
                                    part |-> "endl"])]
         /\ mutex' = [mutex EXCEPT ![b] = 0]
    /\ idx' = [idx EXCEPT ![t] = @ + 1]
    /\ pc' = [pc EXCEPT ![t] = "loop"]
    /\ UNCHANGED <<call, ncalls, exc, proc, predVars, setupVars, fmtVars, sysVars>>

(* stream_ << record fails. The stream is the caller's (a reference): if  *)
(* its exception mask has the bit the failure sets, operator<< throws     *)
(* std::ios_base::failure out of the noexcept consume and std::terminate  *)
(* is called; otherwise the stream goes into its failed state, neither    *)
(* the record nor the newline is written, and consume returns.            *)
WriteRecordFails(t, throws) ==
    /\ proc.state = "running"
    /\ pc[t] = "write"
    /\ IF throws
       THEN /\ proc' = [state |-> "aborted", by |-> t, status |-> 0]
            /\ UNCHANGED <<mutex, idx, pc>>
       ELSE /\ mutex' = [mutex EXCEPT ![sinks[idx[t]].backend] = 0]
            /\ idx' = [idx EXCEPT ![t] = @ + 1]
            /\ pc' = [pc EXCEPT ![t] = "loop"]
            /\ UNCHANGED proc
    /\ UNCHANGED <<stream, call, ncalls, exc, predVars, setupVars, fmtVars, sysVars>>

(* << std::endl fails (the flush, or the newline itself): as above, after *)
(* the record has been written                                             *)
WriteEndlFails(t, throws) ==
    /\ proc.state = "running"
    /\ pc[t] = "endl"
    /\ IF throws
       THEN /\ proc' = [state |-> "aborted", by |-> t, status |-> 0]
            /\ UNCHANGED <<mutex, idx, pc>>
       ELSE /\ mutex' = [mutex EXCEPT ![sinks[idx[t]].backend] = 0]
            /\ idx' = [idx EXCEPT ![t] = @ + 1]
            /\ pc' = [pc EXCEPT ![t] = "loop"]
            /\ UNCHANGED proc
    /\ UNCHANGED <<stream, call, ncalls, exc, predVars, setupVars, fmtVars, sysVars>>

(* A plausible slip: the exception type is fixed instead of the one the   *)
(* caller asked for.                                                       *)
FinishFixedType(t) ==
    /\ proc.state = "running"
    /\ pc[t] = "after"
    /\ CASE call[t].macro = "LOG_FAILURE" ->
              /\ proc' = [state |-> "exited", by |-> t, status |-> EXIT_FAILURE]
              /\ UNCHANGED <<pc, exc, call, idx>>
         [] call[t].macro = "LOG_THROW" ->
              /\ exc' = [exc EXCEPT ![t] =
                           [etype |-> "runtime_error", what |-> call[t].msg]]
              /\ pc' = [pc EXCEPT ![t] = "raised"]
              /\ UNCHANGED <<proc, call, idx>>
         [] OTHER ->
              /\ pc' = [pc EXCEPT ![t] = "idle"]
              /\ call' = [call EXCEPT ![t] = NoCall]
              /\ idx' = [idx EXCEPT ![t] = 1]
              /\ UNCHANGED <<proc, exc>>
    /\ UNCHANGED <<mutex, stream, ncalls, predVars, setupVars, fmtVars, sysVars>>

(* log has returned: LOG_FAILURE goes on to exit(EXIT_FAILURE), LOG_THROW *)
(* to throw ExceptionType{fmt.str()}; the other macros are finished and   *)
(* the caller goes on.                                                     *)
Finish(t) ==
    /\ proc.state = "running"
    /\ pc[t] = "after"
    /\ CASE call[t].macro = "LOG_FAILURE" ->
              /\ proc' = [state |-> "exited", by |-> t, status |-> EXIT_FAILURE]
              /\ UNCHANGED <<pc, exc, call, idx>>
         [] call[t].macro = "LOG_THROW" ->
              /\ exc' = [exc EXCEPT ![t] =
                           [etype |-> call[t].etype, what |-> call[t].msg]]
              /\ pc' = [pc EXCEPT ![t] = "raised"]
              /\ UNCHANGED <<proc, call, idx>>
         [] OTHER ->
              /\ pc' = [pc EXCEPT ![t] = "idle"]
              /\ call' = [call EXCEPT ![t] = NoCall]
              /\ idx' = [idx EXCEPT ![t] = 1]
              /\ UNCHANGED <<proc, exc>>
    /\ UNCHANGED <<mutex, stream, ncalls, predVars, setupVars, fmtVars, sysVars>>

(* the caller's handler catches what LOG_THROW raised, and goes on *)
Catch(t) ==
    /\ proc.state = "running"
    /\ pc[t] = "raised"
    /\ pc' = [pc EXCEPT ![t] = "idle"]
    /\ call' = [call EXCEPT ![t] = NoCall]
    /\ idx' = [idx EXCEPT ![t] = 1]
    /\ exc' = [exc EXCEPT ![t] = NoExc]
    /\ UNCHANGED <<mutex, stream, ncalls, proc, predVars, setupVars, fmtVars, sysVars>>

----------------------------------------------------------------------------
NoFormat == [kind |-> "none"]

----------------------------------------------------------------------------
Init ==
    /\ expr = NoExpr
    /\ pred = NullPredicat
    /\ input = Placeholder
    /\ out = "none"
    /\ args = NoArgs
    /\ fmt = NoFormat
    /\ syslog = NoSyslog
    /\ filter = [f \in Frontends |-> DefaultFilter]
    /\ sinks = <<>>
    /\ raised = "none"
    /\ started = FALSE
    /\ mutex = [b \in Backends |-> 0]
    /\ stream = [b \in Backends |-> <<>>]
    /\ pc = [t \in Threads |-> "idle"]
    /\ call = [t \in Threads |-> NoCall]
    /\ idx = [t \in Threads |-> 1]
    /\ ncalls = [t \in Threads |-> 0]
    /\ exc = [t \in Threads |-> NoExc]
    /\ proc = Running

Next ==
    \/ \E f \in {NULL} \cup Frontends, b \in {NULL} \cup Backends : AddSink(f, b)
    \/ \E f \in Frontends, p \in FilterChoices : SetFilter(f, p)
    \/ StartLogging
    \/ \E t \in Threads, m \in CallMacros, e \in ExceptionTypes \cup {"none"} : Begin(t, m, e)
    \/ \E t \in Threads, m \in CallMacros, items \in MalformedTemplates :
         BeginMalformed(t, m, items)
    \/ \E t \in Threads : Loop(t)
    \/ \E t \in Threads : Lock(t)
    \/ \E t \in Threads : WriteRecord(t)
    \/ \E t \in Threads : WriteEndl(t)
    \/ \E t \in Threads : Finish(t)
    \/ \E t \in Threads : Catch(t)

Spec == Init /\ [][Next]_vars

SpecPred == Init /\ [][NextPred]_vars

SpecFormat == Init /\ [][NextFormat]_vars

(* the logger on streams whose writes can fail, the frontends with the    *)
(* filter they are constructed with                                        *)
NextIO ==
    \/ \E f \in {NULL} \cup Frontends, b \in {NULL} \cup Backends : AddSink(f, b)
    \/ StartLogging
    \/ \E t \in Threads, m \in CallMacros, e \in ExceptionTypes \cup {"none"} : Begin(t, m, e)
    \/ \E t \in Threads : Loop(t)
    \/ \E t \in Threads : Lock(t)
    \/ \E t \in Threads : WriteRecord(t)
    \/ \E t \in Threads : WriteEndl(t)
    \/ \E t \in Threads : Finish(t)
    \/ \E t \in Threads : Catch(t)
    \/ \E t \in Threads, throws \in BOOLEAN : WriteRecordFails(t, throws)
    \/ \E t \in Threads, throws \in BOOLEAN : WriteEndlFails(t, throws)

SpecIO == Init /\ [][NextIO]_vars

----------------------------------------------------------------------------
(* setFilter called while the logging threads run. filter_ = predicate is *)
(* an assignment of a std::function with no lock around it, and getFilter *)
(* copies filter_ with no lock either.                                     *)

(* filter_ while the assignment is under way: neither the old predicate   *)
(* nor the new one                                                         *)
Torn(old, new) ==
    [wf |-> TRUE, fn |-> [s \in Severity |-> "X"], old |-> old, new |-> new]

IsTorn(p) == "old" \in DOMAIN p

(* the predicate the running program hands to setFilter *)
RaceChoices == {makePredicate(Placeholder, Warning, "ge")}

(* setFilter(p) on the main thread, p another predicate than the one in  *)
(* place: the check, and the assignment begins                             *)
SetFilterBegin(f, p) ==
    /\ started /\ proc.state = "running"
    /\ ~IsTorn(filter[f]) /\ filter[f] # p
    /\ setFilter(filter[f], p).raised = "none"
    /\ filter' = [filter EXCEPT ![f] = Torn(filter[f], p)]
    /\ UNCHANGED <<sinks, raised, started, predVars, threadVars, fmtVars, sysVars>>

(* the assignment is complete *)
SetFilterEnd(f) ==
    /\ proc.state = "running"
    /\ IsTorn(filter[f])
    /\ filter' = [filter EXCEPT ![f] = setFilter(filter[f].old, filter[f].new).filter]
    /\ UNCHANGED <<sinks, raised, started, predVars, threadVars, fmtVars, sysVars>>

(* what getFilter()(sev) can give: the filter's answer, or, when the read *)
(* races with the assignment, anything (a data race is undefined          *)
(* behaviour)                                                              *)
RacingOutcomes(p, sev) ==
    IF IsTorn(p) THEN {"T", "F", "X"} ELSE {Invoke(p, sev)}

(* the loop of log, the filter read as the hardware gives it *)
LoopRacing(t) ==
    /\ proc.state = "running"
    /\ pc[t] = "loop"
    /\ IF idx[t] > Len(sinks)
       THEN /\ pc' = [pc EXCEPT ![t] = "after"]
            /\ UNCHANGED <<idx, proc, call>>
       ELSE \E r \in RacingOutcomes(filter[sinks[idx[t]].frontend], call[t].sev) :
            CASE r = "T" -> /\ call' = [call EXCEPT ![t].made = @ + 1]
                            /\ pc' = [pc EXCEPT ![t] = "lock"]
                            /\ UNCHANGED <<idx, proc>>
              [] r = "F" -> /\ idx' = [idx EXCEPT ![t] = @ + 1]
                            /\ UNCHANGED <<pc, proc, call>>
              [] r = "X" -> /\ proc' = [state |-> "aborted", by |-> t, status |-> 0]
                            /\ UNCHANGED <<pc, idx, call>>
    /\ UNCHANGED <<mutex, stream, ncalls, exc, predVars, setupVars, fmtVars, sysVars>>

NextRace ==
    \/ \E f \in {NULL} \cup Frontends, b \in {NULL} \cup Backends : AddSink(f, b)
    \/ StartLogging
    \/ \E f \in Frontends, p \in RaceChoices : SetFilterBegin(f, p)
    \/ \E f \in Frontends : SetFilterEnd(f)
    \/ \E t \in Threads, m \in CallMacros, e \in ExceptionTypes \cup {"none"} : Begin(t, m, e)
    \/ \E t \in Threads : LoopRacing(t)
    \/ \E t \in Threads : Lock(t)
    \/ \E t \in Threads : WriteRecord(t)
    \/ \E t \in Threads : WriteEndl(t)
    \/ \E t \in Threads : Finish(t)
    \/ \E t \in Threads : Catch(t)

SpecRace == Init /\ [][NextRace]_vars

----------------------------------------------------------------------------
(* Two TextStreamBackend objects constructed on the same std::ostream:    *)
(* each has its own mutex_, stream_ refers to the one stream.              *)

(* the stream both backends refer to *)
CommonStream == CHOOSE c \in Backends : \A b \in Backends : c <= b

(* stream_ << record, under the mutex of the backend the sink points to *)
WriteRecordShared(t) ==
    /\ proc.state = "running"
    /\ pc[t] = "write"
    /\ stream' = [stream EXCEPT ![CommonStream] =
                    Append(@, [rec |-> makeRecord(call[t].sev, call[t].msg),
                               part |-> "text"])]
    /\ pc' = [pc EXCEPT ![t] = "endl"]
    /\ UNCHANGED <<mutex, call, idx, ncalls, exc, proc, predVars, setupVars, fmtVars, sysVars>>

(* << std::endl; the lock_guard releases the backend's own mutex *)
WriteEndlShared(t) ==
    /\ proc.state = "running"
    /\ pc[t] = "endl"
    /\ stream' = [stream EXCEPT ![CommonStream] =
                    Append(@, [rec |-> makeRecord(call[t].sev, call[t].msg),
                               part |-> "endl"])]
    /\ mutex' = [mutex EXCEPT ![sinks[idx[t]].backend] = 0]
    /\ idx' = [idx EXCEPT ![t] = @ + 1]
    /\ pc' = [pc EXCEPT ![t] = "loop"]
    /\ UNCHANGED <<call, ncalls, exc, proc, predVars, setupVars, fmtVars, sysVars>>

NextShared ==
    \/ \E f \in {NULL} \cup Frontends, b \in {NULL} \cup Backends : AddSink(f, b)
    \/ StartLogging
    \/ \E t \in Threads, m \in CallMacros, e \in ExceptionTypes \cup {"none"} : Begin(t, m, e)
    \/ \E t \in Threads : Loop(t)
    \/ \E t \in Threads : Lock(t)
    \/ \E t \in Threads : WriteRecordShared(t)
    \/ \E t \in Threads : WriteEndlShared(t)
    \/ \E t \in Threads : Finish(t)
    \/ \E t \in Threads : Catch(t)

SpecShared == Init /\ [][NextShared]_vars

----------------------------------------------------------------------------
(* LOG_FAILURE as the body of an if without braces *)

(* the statements `MACRO(...);` expands to. LOG_FORMAT ends in a          *)
(* semicolon of its own, so the semicolon behind it is an empty           *)
(* statement; LOG_FAILURE adds exit(EXIT_FAILURE) as a further statement; *)
(* LOG_THROW is one block.                                                 *)
Expansion(m) ==
    CASE m = "LOG_FAILURE" -> <<"log", "empty", "exit">>
      [] m = "LOG_THROW" -> <<"block", "empty">>
      [] OTHER -> <<"log", "empty">>

(* `if (cond) MACRO(...);`: the if governs the first statement, the rest  *)
(* follows it whatever cond is                                             *)
Governed(stmts) == <<Head(stmts)>>
Following(stmts) == Tail(stmts)

(* the statements of s, as a set *)
StatementsOf(s) == {s[k] : k \in 1..Len(s)}

(* thread t comes to `if (cond) LOG_FAILURE(...);` *)
GuardedFailure(t, cond) ==
    /\ started /\ proc.state = "running"
    /\ pc[t] = "idle"
    /\ TotalCalls < MaxCalls
    /\ IF cond /\ "log" \in StatementsOf(Governed(Expansion("LOG_FAILURE")))
       THEN Begin(t, "LOG_FAILURE", "none")
       ELSE /\ proc' = IF "exit" \in StatementsOf(Following(Expansion("LOG_FAILURE")))
                       THEN [state |-> "exited", by |-> t, status |-> EXIT_FAILURE]
                       ELSE proc
            /\ UNCHANGED <<mutex, stream, pc, call, idx, ncalls, exc,
                           predVars, setupVars, fmtVars, sysVars>>

NextSite ==
    \/ \E f \in {NULL} \cup Frontends, b \in {NULL} \cup Backends : AddSink(f, b)
    \/ StartLogging
    \/ \E t \in Threads, m \in CallMacros, e \in ExceptionTypes \cup {"none"} : Begin(t, m, e)
    \/ \E t \in Threads, cond \in BOOLEAN : GuardedFailure(t, cond)
    \/ \E t \in Threads : Loop(t)
    \/ \E t \in Threads : Lock(t)
    \/ \E t \in Threads : WriteRecord(t)
    \/ \E t \in Threads : WriteEndl(t)
    \/ \E t \in Threads : Finish(t)
    \/ \E t \in Threads : Catch(t)

SpecSite == Init /\ [][NextSite]_vars

(* the logger with the filters the frontends are constructed with, on     *)
(* streams whose writes complete                                           *)
NextLive ==
    \/ \E f \in {NULL} \cup Frontends, b \in {NULL} \cup Backends : AddSink(f, b)
    \/ StartLogging
    \/ \E t \in Threads, m \in CallMacros, e \in ExceptionTypes \cup {"none"} : Begin(t, m, e)
    \/ \E t \in Threads : Loop(t)
    \/ \E t \in Threads : Lock(t)
    \/ \E t \in Threads : WriteRecord(t)
    \/ \E t \in Threads : WriteEndl(t)
    \/ \E t \in Threads : Finish(t)
    \/ \E t \in Threads : Catch(t)

(* A thread inside log is scheduled again and again, and a write to the   *)
(* stream completes. std::mutex::lock returns once the mutex is free and  *)
(* stays free: the calls are finitely many, so a waiting thread is not    *)
(* overtaken for ever and weak fairness is all the lock needs.             *)
Fairness ==
    \A t \in Threads :
      /\ WF_vars(Loop(t))
      /\ WF_vars(Lock(t))
      /\ WF_vars(WriteRecord(t))
      /\ WF_vars(WriteEndl(t))

SpecLive == Init /\ [][NextLive]_vars /\ Fairness

(* SyslogBackend objects created, used and destroyed *)
SpecSyslog == Init /\ [][NextSyslog]_vars

----------------------------------------------------------------------------
(* Helpers of the properties *)

(* the filter of sink i answers true for sev *)
Accepts(i, sev) == Invoke(filter[sinks[i].frontend], sev) = "T"

(* how many items of s satisfy P *)
CountIn(s, P(_)) == Cardinality({k \in 1..Len(s) : P(s[k])})

(* complete lines (a record and its newline) of the record rec on the     *)
(* stream of backend b                                                     *)
LinesOf(b, rec) ==
    Cardinality({k \in 1..Len(stream[b]) - 1 :
                   /\ stream[b][k] = [rec |-> rec, part |-> "text"]
                   /\ stream[b][k + 1] = [rec |-> rec, part |-> "endl"]})

(* how often the text of rec was written to the stream of backend b *)
TextsOf(b, rec) ==
    Cardinality({k \in 1..Len(stream[b]) :
                   stream[b][k] = [rec |-> rec, part |-> "text"]})

(* the sinks before position n that lead to backend b and accept sev *)
AcceptingBefore(n, b, sev) ==
    {i \in 1..Len(sinks) : i < n /\ sinks[i].backend = b /\ Accepts(i, sev)}

(* thread t is inside a logging call *)
InCall(t) == call[t].macro # "none"

(* log has returned to the macro of thread t *)
Returned(t) == InCall(t) /\ pc[t] \in {"after", "raised"}

----------------------------------------------------------------------------
(* C1: for every log call, the backend of a sink consumes exactly one     *)
(* record of that call if the sink's filter accepts the severity and none *)
(* otherwise: at every moment the backend b holds one complete line of    *)
(* the call per accepting sink on b that the loop has passed, never more, *)
(* and once log has returned the loop has passed every sink.              *)
C1_DispatchByFilter ==
    \A t \in Threads : InCall(t) =>
      /\ Returned(t) => idx[t] = Len(sinks) + 1
      /\ \A b \in Backends :
           LET rec == makeRecord(call[t].sev, call[t].msg) IN
             /\ LinesOf(b, rec) = Cardinality(AcceptingBefore(idx[t], b, call[t].sev))
             /\ TextsOf(b, rec) =
                  LinesOf(b, rec) +
                  (IF pc[t] = "endl" /\ sinks[idx[t]].backend = b THEN 1 ELSE 0)

(* the case of C1: sink1 filtered to <= Info on backend 1, sink2 to       *)
(* >= Warning on backend 2; log(Info) and log(Error) have returned        *)
C1_Witness ==
    /\ sinks = <<Sink(1, 1), Sink(2, 2)>>
    /\ filter[1] = makePredicate(Placeholder, Info, "le")
    /\ filter[2] = makePredicate(Placeholder, Warning, "ge")
    /\ call[1].macro = "LOG_INFO" /\ pc[1] = "after"
    /\ call[2].macro = "LOG_ERROR" /\ pc[2] = "after"
    /\ LinesOf(1, call[1].msg) = 1 /\ TextsOf(2, call[1].msg) = 0
    /\ LinesOf(2, call[2].msg) = 1 /\ TextsOf(1, call[2].msg) = 0

----------------------------------------------------------------------------
(* thread t is inside the write of backend b *)
Writing(t, b) == pc[t] \in {"write", "endl"} /\ sinks[idx[t]].backend = b

(* every record on s is followed at once by its own newline (the last     *)
(* one may still be waiting for it), and every newline follows its record *)
WholeLines(s) ==
    \A k \in 1..Len(s) :
      /\ s[k].part = "text" =>
           k = Len(s) \/ s[k + 1] = [rec |-> s[k].rec, part |-> "endl"]
      /\ s[k].part = "endl" =>
           k > 1 /\ s[k - 1] = [rec |-> s[k].rec, part |-> "text"]

(* C2: consume calls on one backend are mutually exclusive: at most one   *)
(* thread is inside the write of a backend, and no record on its stream   *)
(* is interleaved with another, whichever sinks the backend is attached   *)
(* to.                                                                     *)
C2_MutualExclusion ==
    \A b \in Backends :
      /\ Cardinality({t \in Threads : Writing(t, b)}) <= 1
      /\ \A t \in Threads : Writing(t, b) => mutex[b] = t
      /\ WholeLines(stream[b])

(* the case of C2: one backend attached to two sinks with different       *)
(* frontends; one thread writes through one sink while the other waits at *)
(* the mutex through the other sink                                        *)
C2_Witness ==
    /\ pc[1] = "write" /\ pc[2] = "lock"
    /\ idx[1] # idx[2]
    /\ sinks[idx[1]].backend = sinks[idx[2]].backend
    /\ sinks[idx[1]].frontend # sinks[idx[2]].frontend

(* the consume of call n of thread t has returned (one sink) *)
Consumed(t, n) ==
    \/ n < ncalls[t]
    \/ /\ n = ncalls[t]
       /\ \/ pc[t] \in {"idle", "after", "raised"}
          \/ pc[t] = "loop" /\ idx[t] > 1

(* one sink whose filter accepts every call *)
OneSinkAcceptingAll ==
    /\ started
    /\ Len(sinks) = 1
    /\ \A m \in CallMacros : Accepts(1, MacroSeverity(m))

(* C3: with all calls accepted by one sink on one stream backend, the     *)
(* stream holds whole lines only, one line per call whose consume has     *)
(* returned and none twice; when every thread is back from its calls      *)
(* there are as many lines as calls were issued.                          *)
C3_OneLinePerCall ==
    OneSinkAcceptingAll =>
      LET b == sinks[1].backend IN
        /\ WholeLines(stream[b])
        /\ \A t \in Threads, n \in 1..MaxCalls :
             /\ LinesOf(b, messageHandler(t, n)) = (IF Consumed(t, n) THEN 1 ELSE 0)
             /\ TextsOf(b, messageHandler(t, n)) <= 1
        /\ (\A t \in Threads : pc[t] = "idle") => Len(stream[b]) = 2 * TotalCalls

(* the case of C3: each of the two threads has issued a call, all are     *)
(* back, and the stream holds the two lines                                *)
C3_Witness ==
    /\ OneSinkAcceptingAll
    /\ \A t \in Threads : pc[t] = "idle" /\ ncalls[t] = 1
    /\ Len(stream[sinks[1].backend]) = 2 * Cardinality(Threads)

(* the dispatch of the Failure call that exited the process is complete *)
FailureDispatched ==
    proc.state = "exited" =>
      LET t == proc.by IN
        /\ call[t].macro = "LOG_FAILURE"
        /\ pc[t] = "after"
        /\ idx[t] = Len(sinks) + 1
        /\ proc.status # 0
        /\ \A b \in Backends :
             LinesOf(b, call[t].msg) =
               Cardinality(AcceptingBefore(Len(sinks) + 1, b, Failure))

(* C4: LOG_FAILURE delivers its record in full to every sink whose filter *)
(* accepts Failure and only then exits the process with a non-zero        *)
(* status; the call never returns to its caller and after the exit no     *)
(* thread takes a step.                                                    *)
C4_FailureExitsAfterDispatch ==
    [][ /\ FailureDispatched'
        /\ \A t \in Threads : call[t].macro = "LOG_FAILURE" =>
             /\ [call'[t] EXCEPT !.made = 0] = [call[t] EXCEPT !.made = 0]
             /\ pc'[t] \in {"loop", "lock", "write", "endl", "after"}
        /\ proc.state = "running" ]_vars

(* the case of C4: the process has exited after a Failure record reached  *)
(* two accepting sinks on two backends                                     *)
C4_Witness ==
    /\ proc.state = "exited"
    /\ Len(sinks) = 2
    /\ sinks[1].backend # sinks[2].backend
    /\ Accepts(1, Failure) /\ Accepts(2, Failure)
    /\ \A b \in Backends : LinesOf(b, call[proc.by].msg) = 1

(* C5: LOG_THROW(E, ...) delivers its record to every sink whose filter   *)
(* accepts Throw and then raises an E whose payload is the rendered       *)
(* message, the text the delivered records carry.                         *)
C5_ThrowAfterDispatch ==
    \A t \in Threads : pc[t] = "raised" =>
      /\ call[t].macro = "LOG_THROW"
      /\ exc[t].etype = call[t].etype
      /\ exc[t].what = call[t].msg
      /\ idx[t] = Len(sinks) + 1
      /\ \A b \in Backends :
           LinesOf(b, makeRecord(Throw, exc[t].what)) =
             Cardinality(AcceptingBefore(Len(sinks) + 1, b, Throw))

(* the case of C5: a logic_error was asked for and raised, and its record *)
(* is on a stream                                                          *)
C5_Witness ==
    \E t \in Threads :
      /\ pc[t] = "raised"
      /\ exc[t].etype = "logic_error"
      /\ \E b \in Backends : LinesOf(b, makeRecord(Throw, exc[t].what)) = 1

(* C6: the terminal effects are unconditional: a LOG_THROW call is never  *)
(* ended by anything but its own raise and a LOG_FAILURE call by nothing  *)
(* but its own exit, whatever sinks and filters are registered.           *)
C6_TerminalEffectUnconditional ==
    \A t \in Threads :
      call[t].macro \in {"LOG_THROW", "LOG_FAILURE"} =>
        ~(proc.state = "aborted" /\ proc.by = t)

(* C7: addSink with an absent frontend or backend raises and leaves the   *)
(* sink list as it was, so that no sink with an absent member is ever in  *)
(* the list the log calls go through.                                      *)
C7_AddSinkRejectsAbsent ==
    [][ \A f \in {NULL} \cup Frontends, b \in {NULL} \cup Backends :
          (AddSink(f, b) /\ (f = NULL \/ b = NULL)) =>
            /\ sinks' = sinks
            /\ raised' \in {"invalid logger frontend", "invalid logger backend"}
            /\ \A i \in 1..Len(sinks') :
                 sinks'[i].frontend # NULL /\ sinks'[i].backend # NULL ]_vars

(* the case of C7: a registration was rejected after one had succeeded *)
C7_Witness ==
    /\ raised \in {"invalid logger frontend", "invalid logger backend"}
    /\ Len(sinks) = 1

(* C8: setFilter with an ill-formed predicate raises and leaves the       *)
(* filter of the frontend as it was.                                       *)
C8_SetFilterRejectsIllFormed ==
    [][ \A f \in Frontends, p \in FilterChoices :
          (SetFilter(f, p) /\ ~ToBool(p)) =>
            /\ filter' = filter
            /\ raised' = "invalid severity filter" ]_vars

(* the case of C8: an ill-formed predicate was rejected by a frontend     *)
(* whose filter is not the default one                                     *)
C8_Witness ==
    /\ raised = "invalid severity filter"
    /\ \E f \in Frontends : filter[f] # DefaultFilter

(* both operands of the comparison last built are concrete levels *)
ConcreteComparison ==
    expr.kind = "cmp" /\ expr.lhs \in Levels /\ expr.rhs \in Levels

(* C9: a comparison of two concrete levels gives a well-formed predicate  *)
(* that is constant: called with any level it answers what the comparison *)
(* of the two levels is, and never raises.                                 *)
C9_ConcreteComparisonConstant ==
    ConcreteComparison =>
      /\ ToBool(pred)
      /\ \A s \in Levels :
           Invoke(pred, s) = Outcome(ApplyOp(expr.op, expr.lhs, expr.rhs))
      /\ out \in {"none", Outcome(ApplyOp(expr.op, expr.lhs, expr.rhs))}

(* the severities from the least to the most severe *)
SeverityOrder == <<Trace, Debug, Info, Warning, Throw, Error, Failure>>

Rank(s) == CHOOSE i \in 1..Len(SeverityOrder) : SeverityOrder[i] = s

(* a is less severe than b *)
Below(a, b) == Rank(a) < Rank(b)

(* what a op b is in the order of the severities *)
InOrder(op, a, b) ==
    CASE op = "ne" -> a # b
      [] op = "eq" -> a = b
      [] op = "lt" -> Below(a, b)
      [] op = "gt" -> Below(b, a)
      [] op = "le" -> Below(a, b) \/ a = b
      [] op = "ge" -> Below(b, a) \/ a = b

(* what the expression last built has to answer for the level s *)
Expected(s) ==
    IF expr.kind = "level" THEN s = expr.lhs
    ELSE IF expr.lhs = Placeholder THEN InOrder(expr.op, s, expr.rhs)
    ELSE InOrder(expr.op, expr.lhs, s)

(* the expression last built has the placeholder on exactly one side, or  *)
(* is a single level                                                       *)
PlaceholderExpression ==
    \/ expr.kind = "level"
    \/ /\ expr.kind = "cmp"
       /\ (expr.lhs = Placeholder) # (expr.rhs = Placeholder)
       /\ expr.lhs \in Levels \/ expr.rhs \in Levels

(* C10: a comparison of the placeholder with a level, the placeholder on  *)
(* either side, and a level standing alone, give a well-formed predicate  *)
(* that answers for every level what the total order Trace < Debug < Info *)
(* < Warning < Throw < Error < Failure says, with the operands in the     *)
(* order they were written.                                                *)
C10_ComparisonAgreesWithOrder ==
    PlaceholderExpression =>
      /\ ToBool(pred)
      /\ \A s \in Levels : Invoke(pred, s) = Outcome(Expected(s))
      /\ out # "none" => out = Outcome(Expected(input))

(* the case of C10: Warning < _ was built and called with Error, a call   *)
(* that the operands the other way round would answer differently         *)
C10_Witness ==
    /\ expr = [kind |-> "cmp", lhs |-> Warning, rhs |-> Placeholder, op |-> "lt"]
    /\ input = Error
    /\ out = "T"

(* the expression last built is (p && q) && r or (p || q) || r *)
Connective(a, b) == IF expr.kind = "and" THEN And(a, b) ELSE Or(a, b)

(* C11: && and || are commutative and associative as seen by calling the  *)
(* predicates: the same answer, or a raise on both sides, for every level *)
(* and all operands that operator bool accepts; and !(!val) answers for   *)
(* every level what the predicate of val answers.                         *)
C11_AlgebraLaws ==
    /\ expr.kind \in {"and", "or"} =>
         \A s \in Levels :
           /\ Invoke(Connective(args[1], args[2]), s)
                = Invoke(Connective(args[2], args[1]), s)
           /\ Invoke(pred, s)
                = Invoke(Connective(args[1], Connective(args[2], args[3])), s)
    /\ expr.kind = "notnot" =>
         \A s \in Levels : out = Invoke(LevelPredicat(expr.lhs), s)

(* C12: after setFilter(p) with a well-formed p nothing is raised and     *)
(* getFilter answers as p does for every severity; a frontend filtered to *)
(* >= Warning accepts Warning, Error and Failure and rejects Trace, Debug *)
(* and Info.                                                               *)
C12_SetFilterInstalls ==
    [][ \A f \in Frontends, p \in FilterChoices :
          (SetFilter(f, p) /\ ToBool(p)) =>
            /\ raised' = "none"
            /\ \A s \in Severity : Invoke(getFilter(f)', s) = Invoke(p, s)
            /\ p = makePredicate(Placeholder, Warning, "ge") =>
                 /\ \A s \in {Warning, Error, Failure} : Invoke(getFilter(f)', s) = "T"
                 /\ \A s \in {Trace, Debug, Info} : Invoke(getFilter(f)', s) = "F" ]_vars

(* the case of C12: frontend 1 has been filtered to >= Warning *)
C12_Witness ==
    /\ ~started /\ raised = "none"
    /\ getFilter(1) = makePredicate(Placeholder, Warning, "ge")
    /\ getFilter(1) # DefaultFilter
    /\ Invoke(getFilter(1), Error) = "T" /\ Invoke(getFilter(1), Info) = "F"

(* C13: no failure of the write to the stream gets out of consume: the    *)
(* process is never ended from inside the write of a backend, consume     *)
(* returns and log goes on with the next sink.                            *)
C13_ConsumeContainsFailures ==
    \A t \in Threads :
      ~(proc.state = "aborted" /\ proc.by = t /\ pc[t] \in {"write", "endl"})

(* the template has placeholders and literal text only *)
WellFormedTemplate(items) == \A i \in 1..Len(items) : items[i].k # "bad"

RECURSIVE LiteralPieces(_, _, _)
(* the rendering in which a placeholder without an argument stays as it   *)
(* was written                                                             *)
LiteralPieces(items, as, i) ==
    IF i > Len(items) THEN <<>>
    ELSE (IF items[i].k = "arg" /\ items[i].n <= Len(as)
          THEN <<Lit(as[items[i].n])>>
          ELSE <<items[i]>>) \o LiteralPieces(items, as, i + 1)

(* C15: rendering a user message never raises on a mismatch of the number *)
(* of arguments: the placeholders that got no argument stay literal in    *)
(* the output and the arguments beyond the placeholders are ignored.      *)
C15_MissingSlotsStayLiteral ==
    (fmt.kind = "message" /\ WellFormedTemplate(fmt.tmpl)) =>
      /\ fmt.res.status = "ok"
      /\ fmt.res.out = LiteralPieces(fmt.tmpl, fmt.args, 1)

(* C16: assembling a record from a template that requires another number  *)
(* of fields than the seven it is fed, more or fewer, is an error raised  *)
(* to the caller: neither tolerated nor the end of the process.           *)
C16_FieldCountStrict ==
    (fmt.kind = "record" /\ NumArgs(fmt.tmpl) # Len(fmt.args)) =>
      fmt.res.status = "thrown"

(* C14: a logging call of a severity other than Failure and Throw always  *)
(* returns to its caller: it never ends the process, whatever sinks are   *)
(* registered, whatever filters setFilter accepted and whatever the       *)
(* template and the arguments are.                                         *)
C14_OrdinaryCallsReturn ==
    \A t \in Threads :
      call[t].macro \in Macros \ {"LOG_FAILURE", "LOG_THROW"} =>
        ~(proc.state = "aborted" /\ proc.by = t)

----------------------------------------------------------------------------
(* within the call of thread t, the write of a sink has not begun before  *)
(* the line of every earlier accepting sink is complete: the backend of   *)
(* sink j holds the record as often as accepting sinks up to j lead to it *)
(* only when the backend of each earlier accepting sink i holds as many   *)
(* whole lines as accepting sinks up to i lead to it                      *)
VisitedInOrder ==
    \A t \in Threads : InCall(t) =>
      LET rec == makeRecord(call[t].sev, call[t].msg)
          sev == call[t].sev
      IN
        \A i, j \in 1..Len(sinks) :
          ( /\ i < j
            /\ Accepts(i, sev) /\ Accepts(j, sev)
            /\ TextsOf(sinks[j].backend, rec) >=
                 Cardinality(AcceptingBefore(j + 1, sinks[j].backend, sev)) )
          => LinesOf(sinks[i].backend, rec) >=
               Cardinality(AcceptingBefore(i + 1, sinks[i].backend, sev))

(* C17: sinks are visited in the order they were registered: a successful *)
(* addSink puts the sink behind all sinks registered before it, no other  *)
(* step changes the list, and within one log call a later sink's backend  *)
(* gets the record only after every earlier accepting sink's backend has  *)
(* its complete line.                                                      *)
C17_SinksInRegistrationOrder ==
    [][ /\ \A f \in Frontends \cup {NULL}, b \in Backends \cup {NULL} :
             AddSink(f, b) /\ f # NULL /\ b # NULL
               => sinks' = Append(sinks, Sink(f, b))
        /\ sinks' # sinks => /\ ~started
                             /\ Len(sinks') = Len(sinks) + 1
                             /\ \A k \in 1..Len(sinks) : sinks'[k] = sinks[k]
        /\ VisitedInOrder' ]_vars

(* the case of C17: two accepting sinks on different backends, registered *)
(* one after the other; the call of thread 1 has written its line to the  *)
(* first and is about to write to the second                               *)
C17_Witness ==
    /\ sinks = <<Sink(2, 2), Sink(1, 1)>>
    /\ InCall(1) /\ idx[1] = 2 /\ pc[1] = "write"
    /\ Accepts(1, call[1].sev) /\ Accepts(2, call[1].sev)
    /\ LinesOf(2, makeRecord(call[1].sev, call[1].msg)) = 1
    /\ TextsOf(1, makeRecord(call[1].sev, call[1].msg)) = 0

----------------------------------------------------------------------------
(* call number n of thread t has come back from log *)
Finished(t, n) ==
    \/ n < ncalls[t]
    \/ n = ncalls[t] /\ pc[t] \in {"idle", "after", "raised"}

(* when log has returned to thread t, every accepting sink's backend      *)
(* holds the whole line of the call and t holds no backend's mutex         *)
NothingPending ==
    \A t \in Threads : Returned(t) =>
      LET rec == makeRecord(call[t].sev, call[t].msg) IN
        \A b \in Backends :
          /\ mutex[b] # t
          /\ ~Writing(t, b)
          /\ LinesOf(b, rec) =
               Cardinality(AcceptingBefore(Len(sinks) + 1, b, call[t].sev))
          /\ TextsOf(b, rec) = LinesOf(b, rec)

(* C18: log is synchronous. It returns only after every accepting sink's  *)
(* backend has consumed the record; a stream grows only by a step of a    *)
(* thread that is inside its own log call, holds the backend's mutex and  *)
(* writes its own record; and nothing of a call that has returned is      *)
(* written afterwards.                                                     *)
C18_LogIsSynchronous ==
    [][ /\ NothingPending'
        /\ \A b \in Backends : stream'[b] # stream[b] =>
             \E t \in Threads :
               /\ InCall(t) /\ Writing(t, b) /\ mutex[b] = t
               /\ \E part \in {"text", "endl"} :
                    stream'[b] =
                      Append(stream[b],
                             [rec |-> makeRecord(call[t].sev, call[t].msg),
                              part |-> part])
        /\ \A t \in Threads, n \in 1..MaxCalls, b \in Backends :
             Finished(t, n) =>
               /\ Len(stream'[b]) >= Len(stream[b])
               /\ \A k \in (Len(stream[b]) + 1)..Len(stream'[b]) :
                    stream'[b][k].rec # messageHandler(t, n) ]_vars

(* the case of C18: two accepting sinks on two backends; log has returned *)
(* to thread 1 with both lines written, while thread 2 is still inside    *)
(* the write of its own call                                               *)
C18_Witness ==
    /\ Len(sinks) = 2 /\ sinks[1].backend # sinks[2].backend
    /\ Returned(1) /\ pc[1] = "after"
    /\ Accepts(1, call[1].sev) /\ Accepts(2, call[1].sev)
    /\ \A b \in Backends :
         LinesOf(b, makeRecord(call[1].sev, call[1].msg)) = 1
    /\ pc[2] = "endl" /\ mutex[sinks[idx[2]].backend] = 2

----------------------------------------------------------------------------
(* frontend f accepts exactly the severities at or above base *)
AcceptsFrom(f, base) ==
    \A s \in Severity :
      Invoke(getFilter(f), s) = (IF s >= base THEN "T" ELSE "F")

(* C19, as the spec's example has it: a frontend that setFilter has not   *)
(* touched accepts a severity if and only if it is Info or above.          *)
C19_BaselineInfo ==
    /\ \A f \in Frontends : AcceptsFrom(f, Info)
    /\ [][ \A f \in Frontends :
             AcceptsFrom(f, Info) /\ ~AcceptsFrom(f, Info)'
               => \E p \in FilterChoices : SetFilter(f, p) ]_vars

(* C19, as the code has it: the baseline is Trace. A frontend accepts     *)
(* every level from Trace to Failure and rejects Placeholder alone, from   *)
(* its construction until a setFilter call on it.                          *)
C19_BaselineTrace ==
    /\ \A f \in Frontends : AcceptsFrom(f, Trace)
    /\ [][ \A f \in Frontends :
             AcceptsFrom(f, Trace) /\ ~AcceptsFrom(f, Trace)'
               => \E p \in FilterChoices : SetFilter(f, p) ]_vars

(* the case of C19: frontend 2 was given >= Warning, frontend 1 was left  *)
(* as constructed; an Info call has returned, written through frontend 1   *)
(* and dropped by frontend 2                                               *)
C19_Witness ==
    /\ sinks = <<Sink(1, 1), Sink(2, 2)>>
    /\ AcceptsFrom(1, Trace) /\ ~AcceptsFrom(1, Info)
    /\ AcceptsFrom(2, Warning)
    /\ call[1].macro = "LOG_INFO" /\ pc[1] = "after"
    /\ LinesOf(1, makeRecord(call[1].sev, call[1].msg)) = 1
    /\ TextsOf(2, makeRecord(call[1].sev, call[1].msg)) = 0

----------------------------------------------------------------------------
(* the string backend o handed to openlog is still the buffer of o's own  *)
(* ident_, alive and with the text it was handed with                      *)
IdentValid(o) ==
    LET b == syslog.obj[o] IN
      b.handed # NULL =>
        /\ b.handed = b.ident_
        /\ syslog.heap[b.handed].live
        /\ syslog.heap[b.handed].text = b.text

----------------------------------------------------------------------------
(* the sinks whose filter the call of thread t has asked and found        *)
(* accepting                                                               *)
AcceptedSoFar(t) ==
    {i \in 1..Len(sinks) :
       /\ Accepts(i, call[t].sev)
       /\ \/ i < idx[t]
          \/ i = idx[t] /\ pc[t] \in {"lock", "write", "endl"}}

(* C21: log asks the filter of a sink before anything is rendered for it: *)
(* a call has asked a frontend for a record exactly once per sink whose   *)
(* filter it found accepting, never for a rejecting sink, and no backend   *)
(* holds more records of the call than were made for it.                   *)
C21_FilterBeforeRender ==
    \A t \in Threads : InCall(t) =>
      /\ call[t].made = Cardinality(AcceptedSoFar(t))
      /\ \A b \in Backends :
           TextsOf(b, makeRecord(call[t].sev, call[t].msg)) <=
             Cardinality({i \in AcceptedSoFar(t) : sinks[i].backend = b})

(* the case of C21: the first sink rejects Info and the second accepts    *)
(* it; the call has passed both, one record was made and is on backend 2  *)
C21_Witness ==
    /\ sinks = <<Sink(1, 1), Sink(2, 2)>>
    /\ call[1].macro = "LOG_INFO" /\ pc[1] = "after"
    /\ ~Accepts(1, Info) /\ Accepts(2, Info)
    /\ call[1].made = 1
    /\ TextsOf(1, makeRecord(call[1].sev, call[1].msg)) = 0
    /\ LinesOf(2, makeRecord(call[1].sev, call[1].msg)) = 1

----------------------------------------------------------------------------
(* thread t is at a sink of the list: log is about to use, or is using,   *)
(* sink.frontend and sink.backend                                          *)
AtSink(t) ==
    \/ pc[t] = "loop" /\ idx[t] <= Len(sinks)
    \/ pc[t] \in {"lock", "write", "endl"}

(* C22: every sink of the list has a frontend and a backend, whatever     *)
(* addSink calls succeeded or failed before, so that the sink a log call   *)
(* is at never has an absent member.                                       *)
C22_SinksComplete ==
    /\ \A i \in 1..Len(sinks) :
         sinks[i].frontend # NULL /\ sinks[i].backend # NULL
    /\ \A t \in Threads : AtSink(t) =>
         /\ idx[t] \in 1..Len(sinks)
         /\ sinks[idx[t]].frontend \in Frontends
         /\ sinks[idx[t]].backend \in Backends

(* the case of C22: a sink was registered and the addSink call after it   *)
(* was refused for its absent backend; the list holds the one complete    *)
(* sink                                                                    *)
C22_Witness ==
    /\ sinks = <<Sink(2, 1)>>
    /\ raised = "invalid logger backend"

----------------------------------------------------------------------------
(* a step of thread t: of its macro, or of the log call inside it *)
ThreadStep(t) ==
    \/ \E m \in CallMacros, e \in ExceptionTypes \cup {"none"} : Begin(t, m, e)
    \/ \E m \in CallMacros, items \in MalformedTemplates : BeginMalformed(t, m, items)
    \/ Loop(t) \/ Lock(t) \/ WriteRecord(t) \/ WriteEndl(t)
    \/ Finish(t) \/ Catch(t)

(* C23: no step of a log call changes the sink list, a sink's frontend or *)
(* backend, or a frontend's filter; a stream changes only by the record   *)
(* of the call being appended, through a sink that accepted it; and the    *)
(* one mutex a step touches is that of the backend of the sink the call    *)
(* is at.                                                                   *)
C23_LogLeavesSetUpAlone ==
    [][ \A t \in Threads : ThreadStep(t) =>
          /\ sinks' = sinks
          /\ filter' = filter
          /\ \A b \in Backends :
               /\ stream'[b] # stream[b] =>
                    /\ AtSink(t) /\ sinks[idx[t]].backend = b
                    /\ Accepts(idx[t], call[t].sev)
                    /\ Len(stream'[b]) = Len(stream[b]) + 1
                    /\ SubSeq(stream'[b], 1, Len(stream[b])) = stream[b]
                    /\ stream'[b][Len(stream'[b])].rec =
                         makeRecord(call[t].sev, call[t].msg)
               /\ mutex'[b] # mutex[b] =>
                    AtSink(t) /\ sinks[idx[t]].backend = b ]_vars

(* the case of C23: an Error call has returned after one sink dropped it  *)
(* and one consumed it; list and filters are as set-up left them           *)
C23_Witness ==
    /\ sinks = <<Sink(1, 2), Sink(2, 2)>>
    /\ filter[1] = makePredicate(Placeholder, Info, "le")
    /\ filter[2] = DefaultFilter
    /\ call[2].macro = "LOG_ERROR" /\ pc[2] = "after"
    /\ LinesOf(2, makeRecord(call[2].sev, call[2].msg)) = 1
    /\ \A b \in Backends : mutex[b] = 0

----------------------------------------------------------------------------
(* thread t is inside log *)
InLog(t) == pc[t] \in {"loop", "lock", "write", "endl"}

(* the mutexes thread t holds *)
HeldBy(t) == {b \in Backends : mutex[b] = t}

(* thread t holds a mutex only inside consume, and then the one of the    *)
(* backend its call is at                                                  *)
HoldsOnlyInConsume ==
    \A t \in Threads :
      HeldBy(t) = IF pc[t] \in {"write", "endl"}
                  THEN {sinks[idx[t]].backend}
                  ELSE {}

(* C24: no log call waits for ever for a backend's mutex. A thread holds  *)
(* at most one mutex, only inside consume, and every log call comes back  *)
(* to its macro unless exit has ended the process meanwhile, for any       *)
(* sinks, several of them on one backend included.                         *)
C24_LogReturns ==
    /\ []HoldsOnlyInConsume
    /\ \A t \in Threads :
         InLog(t) ~> (pc[t] = "after" \/ proc.state = "exited")

(* the case of C24: two sinks on the one backend; thread 1 waits for the  *)
(* mutex at its second sink while thread 2 writes                          *)
C24_Witness ==
    /\ sinks = <<Sink(1, 1), Sink(2, 1)>>
    /\ pc[1] = "lock" /\ idx[1] = 2
    /\ pc[2] = "write" /\ mutex[1] = 2
    /\ LinesOf(1, makeRecord(call[1].sev, call[1].msg)) = 1

----------------------------------------------------------------------------
(* where on the stream of backend b the record of call n of thread t is *)
PositionsOf(b, t, n) ==
    {k \in 1..Len(stream[b]) : stream[b][k].rec = messageHandler(t, n)}

----------------------------------------------------------------------------
(* C26: a predicate that setFilter accepts never raises when called: for  *)
(* every predicate the comparison, && and || operators build, if setFilter *)
(* installs it, the installed filter answers true or false for every       *)
(* severity.                                                                *)
C26_AcceptedFilterNeverRaises ==
    LET r == setFilter(DefaultFilter, pred) IN
      r.raised = "none" =>
        \A s \in Severity : Invoke(r.filter, s) \in {"T", "F"}

----------------------------------------------------------------------------
(* what the filter call of thread t's step came to: accepted, rejected,   *)
(* or raised                                                               *)
VerdictOf(t) ==
    IF pc'[t] = "lock" THEN "T"
    ELSE IF idx'[t] # idx[t] THEN "F"
    ELSE "X"

(* C27: a log call that runs while setFilter replaces the filter of its   *)
(* sink's frontend sees the previous filter or the new one: its verdict   *)
(* on the severity is the one the old predicate gives or the one the new  *)
(* predicate gives.                                                        *)
C27_OldOrNewFilter ==
    [][ \A t \in Threads :
          (LoopRacing(t) /\ idx[t] <= Len(sinks)) =>
            LET p == filter[sinks[idx[t]].frontend]
                sev == call[t].sev
            IN  VerdictOf(t) \in
                  (IF IsTorn(p)
                   THEN {Invoke(p.old, sev), Invoke(p.new, sev)}
                   ELSE {Invoke(p, sev)}) ]_vars

----------------------------------------------------------------------------
(* C28: records do not interleave on a stream that two backends share:    *)
(* at most one thread is between writing a record and writing its newline *)
(* to the stream, and the stream holds whole lines only.                   *)
C28_WholeLinesPerStream ==
    /\ Cardinality({t \in Threads : pc[t] = "endl"}) <= 1
    /\ WholeLines(stream[CommonStream])

----------------------------------------------------------------------------
(* the identity backend o was constructed with: its ident, or the         *)
(* program's name when it was given none                                   *)
OwnIdentity(o) ==
    IF syslog.obj[o].handed = NULL THEN "program" ELSE syslog.obj[o].text

(* C29: every record a SyslogBackend consumes goes out under the identity *)
(* that backend was constructed with, whatever other SyslogBackend objects *)
(* were constructed or destroyed before.                                    *)
C29_EmittedUnderOwnIdentity ==
    [][ \A o \in Objs, rec \in Records :
          Consume(o, rec) => syslog'.last.tag = OwnIdentity(o) ]_vars

----------------------------------------------------------------------------
(* C30: LOG_FAILURE as the unbraced body of a conditional is one          *)
(* statement: where the condition is false the thread goes on, nothing is *)
(* logged and the process does not exit; where it holds the call is made  *)
(* and the process is not ended before log has returned.                   *)
C30_GuardedFailureIsOneStatement ==
    [][ \A t \in Threads :
          /\ GuardedFailure(t, FALSE) =>
               /\ proc' = proc
               /\ call' = call /\ stream' = stream
          /\ GuardedFailure(t, TRUE) =>
               /\ proc' = proc
               /\ call'[t].macro = "LOG_FAILURE" /\ pc'[t] = "loop" ]_vars

====
